---- MODULE Spec2Model ----
(***************************************************************************)
(* A model of stellar-core's Herder (src/src/herder/Herder.cpp): the FBA   *)
(* adapter callbacks (validateValue, validateBallot, valueExternalized,    *)
(* emitEnvelope), the deferred TxSet validations of mTxSetFetches, the     *)
(* future-envelope buffer and the proposal trigger.                        *)
(*                                                                         *)
(* Every handler is an operator from a Herder state (a record holding the  *)
(* member variables) to the Herder state it leaves behind, so that the     *)
(* handlers compose the way the C++ calls do (bootstrap calls              *)
(* triggerNextLedger, which calls recvTxSet, which calls recvTransaction   *)
(* and the pending validations).  An action applies one public handler and *)
(* assigns the record back to the variables.                               *)
(***************************************************************************)
EXTENDS Integers, Sequences, FiniteSets, TLC

VARIABLES
    mLedgersToWaitToParticipate, \* Herder.cpp:61
    mLastClosedLedger,           \* Herder.cpp:82
    mLastTrigger,                \* Herder.cpp:62, 631 (seconds)
    mTxSetFetcher,               \* Herder.cpp:43-57, the two TxSetFetcher buffers
    mCurrentTxSetFetcher,        \* Herder.cpp:59
    mTxSetFetches,               \* Herder.cpp:147, 248: hash -> list of validations
    mReceivedTransactions,       \* Herder.cpp:39: 4 age buckets
    mFutureEnvelopes,            \* Herder.cpp:549: slotIndex -> list of envelopes
    mLocalValue,                 \* Herder.cpp:666
    mBumpTimer,                  \* Herder.cpp:64
    DESIRED_BASE_FEE,            \* mApp.getConfig().DESIRED_BASE_FEE
    now,                         \* mApp.getClock().now(), in seconds
    nCalls,                      \* the validate calls made so far (numbers them)
    nEnvs,                       \* the envelopes received so far (numbers them)
    mTransactionQueue,           \* TransactionQueue.h:53: the per-account queue
    accountSeqNum,               \* the ledger: AccountID -> sequence number
    history,                     \* observation: what the queue's callers did lately
    last,                        \* observation: the last handler and its inputs
    out                          \* observation: what the last handler called

vars ==
    <<mLedgersToWaitToParticipate, mLastClosedLedger, mLastTrigger,
      mTxSetFetcher, mCurrentTxSetFetcher, mTxSetFetches,
      mReceivedTransactions, mFutureEnvelopes, mLocalValue, mBumpTimer,
      DESIRED_BASE_FEE, now, nCalls, nEnvs, mTransactionQueue, accountSeqNum,
      history, last, out>>

----------------------------------------------------------------------------
(* Bounds of the model.                                                     *)

MaxCalls == 1
MaxEnvs == 3
MaxTime == 2
MaxWaits == 2
MaxFee == 6

----------------------------------------------------------------------------
(* Program constants.                                                       *)

\* Herder.h is not among the sources; the values are the ones the
\* specification gives for the configuration.
MAX_FBA_TIMEOUT_SECONDS == 30
MAX_TIME_SLIP_SECONDS == 60
LEDGER_VALIDITY_BRACKET == 10

\* The largest int: (int) casts of Herder.cpp:198 and 201 are 32 bits wide.
INT_MAX == 2147483647
INT_MIN == (-INT_MAX) - 1

Range(s) == {s[i] : i \in 1..Len(s)}

----------------------------------------------------------------------------
(* uint64_t arithmetic.  A uint64_t is held in three limbs,                *)
(* a * 2^62 + b * 2^31 + c with a \in 0..3 and b, c \in 0..INT_MAX, so that  *)
(* the sums of Herder.cpp:185-201 wrap at 2^64 exactly as in C++.           *)

U64(n) == [a |-> 0, b |-> 0, c |-> n]

\* int -> uint64_t conversion (sign extension, modulo 2^64).
U64FromInt(x) ==
    IF x >= 0 THEN U64(x) ELSE [a |-> 3, b |-> INT_MAX, c |-> (x + INT_MAX) + 1]

AddLimb(x, y) ==
    IF x > INT_MAX - y
    THEN [s |-> (x - (INT_MAX - y)) - 1, carry |-> 1]
    ELSE [s |-> x + y, carry |-> 0]

U64Add(p, q) ==
    LET lo == AddLimb(p.c, q.c)
        m1 == AddLimb(p.b, q.b)
        m2 == AddLimb(m1.s, lo.carry)
    IN  [a |-> (p.a + q.a + m1.carry + m2.carry) % 4, b |-> m2.s, c |-> lo.s]

U64Less(p, q) ==
    \/ p.a < q.a
    \/ p.a = q.a /\ p.b < q.b
    \/ p.a = q.a /\ p.b = q.b /\ p.c < q.c

\* (int) of a uint64_t: the low 32 bits, read as two's complement.
U64ToInt(p) == IF p.b % 2 = 1 THEN (p.c - INT_MAX) - 1 ELSE p.c


----------------------------------------------------------------------------
(* The checks of validateBallot that read the clock and the configuration. *)

Min(x, y) == IF x < y THEN x ELSE y

\* (int)pow(2.0, i), Herder.cpp:198.  From i = 31 on the power does not fit an
\* int and the conversion is undefined: ub is the value the build produces
\* (INT_MIN with x86 cvttsd2si, INT_MAX with a saturating conversion).
PowInt(i, ub) == IF i < 31 THEN 2 ^ i ELSE ub

UBOutcomes == {INT_MIN, INT_MAX}

\* What the loop's conversions can yield for a ballot counter: one outcome
\* while every power fits, both once a power does not.
PowOutcomes(counter) == IF counter > 31 THEN UBOutcomes ELSE {INT_MAX}

\* The loop of Herder.cpp:195-199; sumTimeouts is a uint64_t and each term an
\* int (std::min of two ints) converted to uint64_t by +=.  The test of sum.a
\* never holds (the limb is below 4): it has the sum evaluated at every turn
\* of the loop, as the code does, and not as one nested expression at the end.
RECURSIVE SumTimeoutsFrom(_, _, _, _)
SumTimeoutsFrom(i, counter, sum, ub) ==
    IF i >= counter \/ sum.a > 3
    THEN sum
    ELSE SumTimeoutsFrom(i + 1, counter,
             U64Add(sum, U64FromInt(Min(MAX_FBA_TIMEOUT_SECONDS, PowInt(i, ub)))),
             ub)

SumTimeouts(counter, ub) == SumTimeoutsFrom(0, counter, U64(0), ub)

\* Herder.cpp:185: b.value.closeTime > timeNow + MAX_TIME_SLIP_SECONDS
CloseTimeTooFar(closeTime, timeNow) ==
    U64Less(U64Add(U64(timeNow), U64FromInt(MAX_TIME_SLIP_SECONDS)), U64(closeTime))

\* Herder.cpp:201:
\*   timeNow + MAX_TIME_SLIP_SECONDS < (int)(lastTrigger + sumTimeouts)
\* The left side is a uint64_t, so the int on the right is converted to
\* uint64_t for the comparison.
CounterTooHigh(timeNow, lastTrigger, counter, ub) ==
    U64Less(U64Add(U64(timeNow), U64FromInt(MAX_TIME_SLIP_SECONDS)),
            U64FromInt(U64ToInt(U64Add(U64(lastTrigger), SumTimeouts(counter, ub)))))

\* A variant of BaseFeeTooLow that halves the desired fee in integers.
BaseFeeTooLowTruncated(baseFee, desired) == baseFee < desired \div 2

\* Herder.cpp:207: b.value.baseFee < DESIRED_BASE_FEE * .5, a comparison of
\* doubles: exact for these magnitudes, so baseFee < D / 2 over the rationals.
BaseFeeTooLow(baseFee, desired) == 2 * baseFee < desired

\* Herder.cpp:211: b.value.baseFee > DESIRED_BASE_FEE * 2
BaseFeeTooHigh(baseFee, desired) == baseFee > desired * 2

----------------------------------------------------------------------------
(* Data.                                                                    *)

\* TransactionFramePtr: a transaction object.
TxObjs == {"a1"}

FullHash(tx) == "A"

\* A null TxSetFramePtr.
NoTxSet == [null |-> TRUE]

\* TxSetFrame: mTransactions and mPreviousLedgerHash.
\* getContentsHash() is the hash of the canonical serialisation: it depends
\* on the transactions' hashes and on the previous ledger hash alone.
ContentsHash(txSet) ==
    [txs |-> {FullHash(tx) : tx \in Range(txSet.txs)}, prev |-> txSet.prev]

ZeroHash == [txs |-> {}, prev |-> "zero"]

\* A default-constructed LedgerHeader (mLastClosedLedger before bootstrap).
NoLedger == [ledgerSeq |-> 0, closeTime |-> 0, hash |-> "zero"]

\* A Value that xdr_from_opaque cannot decode.
BadValue == [undecodable |-> TRUE]

\* xdr::xdr_from_opaque(value, b): b keeps its default construction when the
\* decoding throws (Herder.cpp:284-296).
DefaultBallot == [txSetHash |-> ZeroHash, closeTime |-> 0, baseFee |-> 0]

EmptyMap == [k \in {} |-> 0]

Put(f, k, v) == [x \in DOMAIN f \cup {k} |-> IF x = k THEN v ELSE f[x]]

Drop(f, k) == [x \in DOMAIN f \ {k} |-> f[x]]

----------------------------------------------------------------------------
(* TxSetFetcher (ItemFetcher): the content-addressed cache of section 4.1. *)
(* items: the cached artifacts by hash; fetching: the hashes with an       *)
(* outstanding fetch.                                                      *)

EmptyFetcher == [items |-> EmptyMap, fetching |-> {}]

\* fetchItem(hash, askNetwork): the cached artifact, or absent after
\* starting a fetch when askNetwork.
FetchItem(f, hash, askNetwork) ==
    IF hash \in DOMAIN f.items
    THEN [f |-> f, item |-> f.items[hash]]
    ELSE [f |-> IF askNetwork THEN [f EXCEPT !.fetching = @ \cup {hash}] ELSE f,
          item |-> NoTxSet]

\* recvItem(artifact): stores it; true iff a fetch for its hash was outstanding.
RecvItem(f, txSet) ==
    LET hash == ContentsHash(txSet)
    IN  [f |-> [items |-> Put(f.items, hash, txSet), fetching |-> f.fetching \ {hash}],
         r |-> hash \in f.fetching]

StopFetchingAll(f) == [f EXCEPT !.fetching = {}]

Clear(f) == EmptyFetcher

----------------------------------------------------------------------------
(* The Herder: the record of its members, and what it calls.                *)

Herder ==
    [mLedgersToWaitToParticipate |-> mLedgersToWaitToParticipate,
     mLastClosedLedger |-> mLastClosedLedger,
     mLastTrigger |-> mLastTrigger,
     mTxSetFetcher |-> mTxSetFetcher,
     mCurrentTxSetFetcher |-> mCurrentTxSetFetcher,
     mTxSetFetches |-> mTxSetFetches,
     mReceivedTransactions |-> mReceivedTransactions,
     mFutureEnvelopes |-> mFutureEnvelopes,
     mLocalValue |-> mLocalValue,
     mBumpTimer |-> mBumpTimer,
     DESIRED_BASE_FEE |-> DESIRED_BASE_FEE,
     now |-> now,
     nCalls |-> nCalls,
     nEnvs |-> nEnvs,
     out |-> <<>>]

\* A call of a collaborator (slot-machine, overlay, ledger) or of a result
\* callback, in the order the handler makes them.
Call(h, event) == [h EXCEPT !.out = Append(@, event)]

\* cb(result) of the validation c, Herder.cpp:91, 171.
Cb(h, c, result, txSet) ==
    Call(h, [type |-> "cb", c |-> c, result |-> result, txSet |-> txSet])

\* Herder.cpp:393-398
fetchTxSet(h, txSetHash, askNetwork) ==
    LET r == FetchItem(h.mTxSetFetcher[h.mCurrentTxSetFetcher], txSetHash, askNetwork)
    IN  [h |-> [h EXCEPT !.mTxSetFetcher[h.mCurrentTxSetFetcher] = r.f], item |-> r.item]

recvTransactionUnseen(h, tx, ok) ==
    IF ~ok THEN [h |-> h, r |-> FALSE]
    ELSE [h |-> [h EXCEPT !.mReceivedTransactions[1] = Append(@, tx)], r |-> TRUE]

\* Herder.cpp:473-523.  ok: loadAccount, the sequence number, the balance and
\* checkValid all pass (they read the ledger, which is not modelled).
recvTransaction(h, tx, ok) ==
    LET seen == \E n \in 1..Len(h.mReceivedTransactions) :
                    \E oldTX \in Range(h.mReceivedTransactions[n]) :
                        FullHash(tx) = FullHash(oldTX)
    IN  IF seen THEN [h |-> h, r |-> FALSE]
        ELSE IF ~ok THEN [h |-> h, r |-> FALSE]
        ELSE [h |-> [h EXCEPT !.mReceivedTransactions[1] = Append(@, tx)], r |-> TRUE]

----------------------------------------------------------------------------
(* Validations: the lambdas that validateValue and validateBallot run on   *)
(* the TxSet, at once on a cache hit or from recvTxSet.  c is the capture  *)
(* [id, kind, slotIndex, b].                                                *)

\* Herder.cpp:120-142.  valid: txSet->checkValid(mApp).
ValidateValueTxSet(h, c, txSet, valid) ==
    IF h.mLedgersToWaitToParticipate = 0 /\ ~valid
    THEN Cb(h, c, FALSE, txSet)
    ELSE Cb(h, c, TRUE, txSet)

\* A variant of ValidateBallotTxSet that reads the newest bucket.
ValidateBallotTxSetNewest(h, c, txSet) ==
    IF \E tx \in Range(h.mReceivedTransactions[1]) : tx \notin Range(txSet.txs)
    THEN Cb(h, c, FALSE, txSet)
    ELSE Cb(h, c, TRUE, txSet)

\* Herder.cpp:217-243.  find() compares TransactionFramePtr, the objects.
ValidateBallotTxSet(h, c, txSet) ==
    LET oldest == h.mReceivedTransactions[Len(h.mReceivedTransactions)]
    IN  IF \E tx \in Range(oldest) : tx \notin Range(txSet.txs)
        THEN Cb(h, c, FALSE, txSet)
        ELSE Cb(h, c, TRUE, txSet)

Validate(h, c, txSet, valid) ==
    IF c.kind = "value"
    THEN ValidateValueTxSet(h, c, txSet, valid)
    ELSE ValidateBallotTxSet(h, c, txSet)

\* Herder.cpp:415-418
RECURSIVE RunValidations(_, _, _, _)
RunValidations(h, list, txSet, valid) ==
    IF list = <<>>
    THEN h
    ELSE RunValidations(Validate(h, Head(list), txSet, valid), Tail(list), txSet, valid)

\* Herder.cpp:406-409.  accept[tx]: recvTransaction's ledger checks pass for tx.
RECURSIVE RecvTransactions(_, _, _)
RecvTransactions(h, txs, accept) ==
    IF txs = <<>>
    THEN h
    ELSE RecvTransactions(recvTransaction(h, Head(txs), accept[Head(txs)]).h,
                          Tail(txs), accept)

\* Herder.cpp:411-420
ResumeValidations(h, txSet, valid) ==
    LET hash == ContentsHash(txSet)
    IN  IF hash \in DOMAIN h.mTxSetFetches
        THEN [RunValidations(h, h.mTxSetFetches[hash], txSet, valid)
                 EXCEPT !.mTxSetFetches = Drop(@, hash)]
        ELSE h

\* Herder.cpp:400-422
recvTxSet(h, txSet, accept, valid) ==
    LET cur == h.mCurrentTxSetFetcher
        ri == RecvItem(h.mTxSetFetcher[cur], txSet)
        h1 == [h EXCEPT !.mTxSetFetcher[cur] = ri.f]
    IN  IF ri.r
        THEN ResumeValidations(RecvTransactions(h1, txSet.txs, accept), txSet, valid)
        ELSE h1

\* Herder.cpp:144-152 and 245-253: run the validation on the cached TxSet, or
\* park it under the hash.
FetchThenValidate(h, c, valid) ==
    LET f == fetchTxSet(h, c.b.txSetHash, TRUE)
        r == [h |-> Call(f.h, [type |-> "fetchTxSet", id |-> c.id,
                               found |-> f.item # NoTxSet]),
              item |-> f.item]
    IN  IF r.item = NoTxSet
        THEN [r.h EXCEPT
                !.mTxSetFetches =
                    Put(@, c.b.txSetHash,
                        IF c.b.txSetHash \in DOMAIN @
                        THEN Append(@[c.b.txSetHash], c)
                        ELSE <<c>>)]
        ELSE Validate(r.h, c, r.item, valid)

\* The call c is entered.
Enter(h, c) == [h EXCEPT !.nCalls = c.id]

\* Herder.cpp:87-153
validateValue(h, slotIndex, value, valid) ==
    LET c == [id |-> h.nCalls + 1, kind |-> "value", slotIndex |-> slotIndex,
              b |-> value]
        h0 == Enter(h, c)
    IN  IF value = BadValue
        THEN Cb(h0, c, FALSE, NoTxSet)
        ELSE IF /\ h.mLedgersToWaitToParticipate = 0
                /\ h.mLastClosedLedger.ledgerSeq + 1 # slotIndex
        THEN Cb(h0, c, FALSE, NoTxSet)
        ELSE IF /\ h.mLedgersToWaitToParticipate = 0
                /\ value.closeTime <= h.mLastClosedLedger.closeTime
        THEN Cb(h0, c, FALSE, NoTxSet)
        ELSE FetchThenValidate(h0, c, valid)

\* Herder.cpp:167-254.  ballot = [counter, value]; ub: see PowInt.
validateBallot(h, slotIndex, ballot, ub) ==
    LET c == [id |-> h.nCalls + 1, kind |-> "ballot", slotIndex |-> slotIndex,
              b |-> ballot.value]
        h0 == Enter(h, c)
    IN  IF ballot.value = BadValue
        THEN Cb(h0, c, FALSE, NoTxSet)
        ELSE IF CloseTimeTooFar(ballot.value.closeTime, h.now)
        THEN Cb(h0, c, FALSE, NoTxSet)
        ELSE IF CounterTooHigh(h.now, h.mLastTrigger, ballot.counter, ub)
        THEN Cb(h0, c, FALSE, NoTxSet)
        ELSE IF BaseFeeTooLow(ballot.value.baseFee, h.DESIRED_BASE_FEE)
        THEN Cb(h0, c, FALSE, NoTxSet)
        ELSE IF BaseFeeTooHigh(ballot.value.baseFee, h.DESIRED_BASE_FEE)
        THEN Cb(h0, c, FALSE, NoTxSet)
        ELSE FetchThenValidate(h0, c, TRUE)

----------------------------------------------------------------------------
(* Envelopes.                                                               *)

\* FBA::receiveEnvelope(envelope, cb): the slot-machine takes the envelope.
receiveEnvelope(h, envelope) ==
    Call(h, [type |-> "receiveEnvelope", envelope |-> envelope])

\* A variant of OutOfBracket whose bracket is open at both ends.
OutOfBracketOpen(ledgerSeq, slotIndex) ==
    \/ slotIndex >= ledgerSeq + LEDGER_VALIDITY_BRACKET
    \/ slotIndex + LEDGER_VALIDITY_BRACKET <= ledgerSeq

\* Herder.cpp:531-540: the envelope's slot is out of the validity bracket.
OutOfBracket(ledgerSeq, slotIndex) ==
    LET minLedgerSeq == IF U64ToInt(U64(ledgerSeq)) - LEDGER_VALIDITY_BRACKET < 0
                        THEN 0
                        ELSE ledgerSeq - LEDGER_VALIDITY_BRACKET
        maxLedgerSeq == ledgerSeq + LEDGER_VALIDITY_BRACKET
    IN  slotIndex > maxLedgerSeq \/ slotIndex < minLedgerSeq

\* Herder.cpp:525-555
recvFBAEnvelope(h, envelope) ==
    IF h.mLedgersToWaitToParticipate = 0
    THEN LET lcl == h.mLastClosedLedger.ledgerSeq
         IN  IF OutOfBracket(lcl, envelope.slotIndex)
             THEN h
             ELSE LET h1 == IF envelope.slotIndex > lcl + 1
                            THEN [h EXCEPT !.mFutureEnvelopes =
                                     Put(@, envelope.slotIndex,
                                         IF envelope.slotIndex \in DOMAIN @
                                         THEN Append(@[envelope.slotIndex], envelope)
                                         ELSE <<envelope>>)]
                            ELSE h
                  IN  receiveEnvelope(h1, envelope)
    ELSE receiveEnvelope(h, envelope)

\* A variant of emitEnvelope without the early return of Herder.cpp:380-384.
emitEnvelopeUnguarded(h, envelope) ==
    Call(h, [type |-> "broadcastMessage",
             msg |-> [type |-> "FBA_MESSAGE", envelope |-> envelope]])

\* Herder.cpp:374-391
emitEnvelope(h, envelope) ==
    IF h.mLedgersToWaitToParticipate > 0
    THEN h
    ELSE Call(h, [type |-> "broadcastMessage",
                  msg |-> [type |-> "FBA_MESSAGE", envelope |-> envelope]])

----------------------------------------------------------------------------
(* Externalization.                                                         *)

\* VirtualTimer, the timer of the virtual clock (asio's waitable timer for
\* that clock).  expires: the expiry time; waits: the handlers of the pending
\* asynchronous waits, each run with success once the expiry time is
\* reached; aborted: the handlers of the cancelled waits, each still to be
\* run with operation_aborted.
\* mBumpTimer as constructed: no wait.
NoWait == [expires |-> 0, waits |-> <<>>, aborted |-> <<>>]

\* cancel(): every pending wait is cancelled.
TimerCancel(t) == [t EXCEPT !.waits = <<>>, !.aborted = @ \o t.waits]

\* async_wait(handler): a wait for the expiry time of the timer.
TimerAsyncWait(t, handler) == [t EXCEPT !.waits = Append(@, handler)]

\* expires_from_now(d): setting the expiry time cancels the pending waits.
TimerExpiresFromNow(t, timeNow, d) == [TimerCancel(t) EXCEPT !.expires = timeNow + d]

\* The handlers the clock can run now, with the error each is run with.
TimerDue(t, timeNow) ==
    {[error |-> "operation_aborted", handler |-> t.aborted[i]] :
        i \in {j \in DOMAIN t.aborted : j = 1}}
    \cup {[error |-> "success", handler |-> t.waits[i]] :
        i \in {j \in DOMAIN t.waits : j = 1 /\ timeNow >= t.expires}}

\* The timer once the clock took the handler due to run it.
TimerTake(t, due) ==
    IF due.error = "success"
    THEN [t EXCEPT !.waits = Tail(@)]
    ELSE [t EXCEPT !.aborted = Tail(@)]

\* Herder.cpp:604-623.  "for (auto list : mReceivedTransactions)" copies each
\* bucket, and erase() works on the copy: the member is left as it was.
removeReceivedTx(h, dropTx) == h

\* Herder.cpp:315-318
RECURSIVE RemoveReceivedTxs(_, _)
RemoveReceivedTxs(h, txs) ==
    IF txs = <<>> THEN h ELSE RemoveReceivedTxs(removeReceivedTx(h, Head(txs)), Tail(txs))

\* Herder.cpp:321-325
RECURSIVE Rebroadcast(_, _)
Rebroadcast(h, txs) ==
    IF txs = <<>>
    THEN h
    ELSE Rebroadcast(Call(h, [type |-> "broadcastMessage",
                              msg |-> [type |-> "TRANSACTION", tx |-> Head(txs)]]),
                     Tail(txs))

\* Herder.cpp:329-336, for bucket n (1-based) down to the second one.
RECURSIVE MoveUp(_, _)
MoveUp(buckets, n) ==
    IF n <= 1
    THEN buckets
    ELSE MoveUp([buckets EXCEPT ![n] = @ \o buckets[n - 1], ![n - 1] = <<>>], n - 1)

\* A variant of valueExternalized that rotates the buffers and ages the pool
\* also when the TxSet is not found.
valueExternalizedRotates(h, slotIndex, value) ==
    LET h1 == [h EXCEPT !.mBumpTimer = TimerCancel(@)]
        cur == h1.mCurrentTxSetFetcher
        next == IF cur # 0 THEN 0 ELSE 1
        h2 == [h1 EXCEPT !.mTxSetFetcher[cur] = StopFetchingAll(@)]
        h3 == [h2 EXCEPT !.mCurrentTxSetFetcher = next,
                         !.mTxSetFetcher[next] = Clear(@)]
    IN  [h3 EXCEPT !.mReceivedTransactions = MoveUp(@, Len(@))]

\* Herder.cpp:279-346
valueExternalized(h, slotIndex, value) ==
    LET h1 == [h EXCEPT !.mBumpTimer = TimerCancel(@)]
        b == IF value = BadValue THEN DefaultBallot ELSE value
        externalizedSet == fetchTxSet(h1, b.txSetHash, FALSE).item
    IN  IF externalizedSet # NoTxSet
        THEN LET cur == h1.mCurrentTxSetFetcher
                 next == IF cur # 0 THEN 0 ELSE 1
                 h2 == [h1 EXCEPT !.mTxSetFetcher[cur] = StopFetchingAll(@)]
                 h3 == [h2 EXCEPT !.mCurrentTxSetFetcher = next,
                                  !.mTxSetFetcher[next] = Clear(@)]
                 h4 == Call(h3, [type |-> "externalizeValue", txSet |-> externalizedSet])
                 h5 == RemoveReceivedTxs(h4, externalizedSet.txs)
                 h6 == Rebroadcast(h5, h5.mReceivedTransactions[2])
             IN  [h6 EXCEPT !.mReceivedTransactions = MoveUp(@, Len(@))]
        ELSE h1

----------------------------------------------------------------------------
(* The proposal trigger.                                                    *)

\* A variant of Flatten that takes the newest bucket alone.
FlattenNewest(buckets) == IF buckets = <<>> THEN <<>> ELSE Head(buckets)

\* Herder.cpp:635-642
RECURSIVE Flatten(_)
Flatten(buckets) ==
    IF buckets = <<>> THEN <<>> ELSE Head(buckets) \o Flatten(Tail(buckets))

\* A variant of Replay that hands the envelopes over last to first.
RECURSIVE ReplayReversed(_, _)
ReplayReversed(h, list) ==
    IF list = <<>>
    THEN h
    ELSE recvFBAEnvelope(ReplayReversed(h, Tail(list)), Head(list))

\* Herder.cpp:680-683
RECURSIVE Replay(_, _)
Replay(h, list) ==
    IF list = <<>> THEN h ELSE Replay(recvFBAEnvelope(h, Head(list)), Tail(list))

\* Herder.cpp:625-685.  valid: checkValid for the validations that
\* recvTxSet(proposedSet) resumes.
triggerNextLedger(h, valid) ==
    LET h1 == [h EXCEPT !.mLastTrigger = h.now]
        lcl == h1.mLastClosedLedger
        proposedSet == [txs |-> Flatten(h1.mReceivedTransactions), prev |-> lcl.hash]
        h2 == fetchTxSet(h1, ContentsHash(proposedSet), TRUE).h
        h3 == recvTxSet(h2, proposedSet, [tx \in TxObjs |-> TRUE], valid)
        slotIndex == lcl.ledgerSeq + 1
        nextCloseTime == IF h1.mLastTrigger <= lcl.closeTime
                         THEN lcl.closeTime + 1
                         ELSE h1.mLastTrigger
        b == [txSetHash |-> ContentsHash(proposedSet), closeTime |-> nextCloseTime,
              baseFee |-> h.DESIRED_BASE_FEE]
        h4 == [h3 EXCEPT !.mLocalValue = b]
        h5 == Call(h4, [type |-> "prepareValue", slotIndex |-> slotIndex,
                        value |-> h4.mLocalValue, bumpCounter |-> FALSE])
        h6 == Replay(h5, IF slotIndex \in DOMAIN h5.mFutureEnvelopes
                         THEN h5.mFutureEnvelopes[slotIndex]
                         ELSE <<>>)
    IN  [h6 EXCEPT !.mFutureEnvelopes = Drop(@, slotIndex)]

\* Herder.cpp:77-85.  header: getLedgerMaster().getLastClosedLedgerHeader().
bootstrap(h, header, valid) ==
    triggerNextLedger([h EXCEPT !.mLastClosedLedger = header,
                                !.mLedgersToWaitToParticipate = 0],
                      valid)

\* Herder.cpp:557-602.  The handler returns on its first line (561): what
\* follows the return never runs.  synced: mApp.getState() is SYNCED_STATE.
ledgerClosed(h, ledger, synced) == h

----------------------------------------------------------------------------
(* The bump timer.                                                          *)

\* Herder.cpp:256-277: cancel(), async_wait(bind(expireBallot, this, _1,
\* slotIndex, ballot)), then expires_from_now((int)pow(2.0, ballot.counter)),
\* in this order.
ballotDidHearFromQuorum(h, slotIndex, ballot) ==
    IF h.mLedgersToWaitToParticipate > 0
    THEN h
    ELSE LET t1 == TimerCancel(h.mBumpTimer)
             t2 == TimerAsyncWait(t1, [slotIndex |-> slotIndex,
                                       counter |-> ballot.counter])
             t3 == TimerExpiresFromNow(t2, h.now, PowInt(ballot.counter, INT_MAX))
         IN  [h EXCEPT !.mBumpTimer = t3]

\* A variant of expireBallot that does not look at the error.
expireBallotAnyError(h, error, slotIndex) ==
    Call(h, [type |-> "prepareValue", slotIndex |-> slotIndex,
             value |-> h.mLocalValue, bumpCounter |-> TRUE])

\* Herder.cpp:687-704, the handler of the bump timer's wait.
expireBallot(h, error, slotIndex) ==
    IF error = "operation_aborted"
    THEN h
    ELSE Call(h, [type |-> "prepareValue", slotIndex |-> slotIndex,
                  value |-> h.mLocalValue, bumpCounter |-> TRUE])

----------------------------------------------------------------------------
(* Inputs.                                                                  *)

\* What getLastClosedLedgerHeader() may return.
Headers ==
    {[ledgerSeq |-> 9, closeTime |-> 1, hash |-> "L9"],
     [ledgerSeq |-> 11, closeTime |-> 2, hash |-> "L11"]}

\* TxSets that peers send.
NetTxSets ==
    {[txs |-> <<>>, prev |-> "L9"],
     [txs |-> <<"a1">>, prev |-> "L9"]}

\* Slot indexes of the envelopes and values that peers send.
Slots == {0, 12, 21}

\* Slot indexes of the values and ballots that the slot-machine validates.
ValueSlots == {10, 12}

CloseTimes == {2}

\* Config::DESIRED_BASE_FEE of the node: odd, so that half of it is no integer.
ConfiguredFee == 3

Fees == {ConfiguredFee}

Values ==
    {[txSetHash |-> ContentsHash(txSet), closeTime |-> closeTime, baseFee |-> baseFee] :
        txSet \in NetTxSets, closeTime \in CloseTimes, baseFee \in Fees}
    \cup {BadValue}

Counters == {0}

\* Ballot counters the slot-machine hears a quorum on.
HeardCounters == {0, 3}

----------------------------------------------------------------------------
(* The TransactionQueue of TransactionQueue.h.  The header declares the     *)
(* class; its operations follow section 4.2 of the specification.           *)

\* TransactionQueue.h:98-99: the constructor's pendingDepth, banDepth and
\* poolLedgerMultiplier, as the queue of the model is configured.
mPendingDepth == 4
mBanDepth == 2
mPoolLedgerMultiplier == 2

\* The network's cap on the operations of one ledger.
NetworkLedgerOpsCap == 1

\* TransactionQueue.h:56
FEE_MULTIPLIER == 10

\* TransactionQueue.h:162
maxQueueSizeOps == mPoolLedgerMultiplier * NetworkLedgerOpsCap

\* AccountID
QueueAccounts == {"acc1", "acc2"}

\* TransactionFrameBasePtr: the transactions the network submits.
TxA == [fullHash |-> "hA", sourceID |-> "acc1", seqNum |-> 5, feeBid |-> 100,
        numOperations |-> 1]
TxAPrime == [fullHash |-> "hA999", sourceID |-> "acc1", seqNum |-> 5, feeBid |-> 999,
             numOperations |-> 1]
TxATen == [fullHash |-> "hA1000", sourceID |-> "acc1", seqNum |-> 5, feeBid |-> 1000,
           numOperations |-> 1]
TxB == [fullHash |-> "hB", sourceID |-> "acc1", seqNum |-> 6, feeBid |-> 100,
        numOperations |-> 1]
TxC == [fullHash |-> "hC", sourceID |-> "acc2", seqNum |-> 1, feeBid |-> 50,
        numOperations |-> 1]

QueueTxs == {TxA, TxAPrime, TxATen, TxB, TxC}

\* The sequence numbers of the accounts in the ledger before any of QueueTxs
\* is applied.
InitialSeqNums == [acc \in QueueAccounts |-> IF acc = "acc1" THEN 4 ELSE 0]

\* TransactionQueue.h:88-96: AccountTransactions.  An account without an
\* entry in mPendingTransactions reads as this one.
NoAccountTransactions ==
    [mTotalFees |-> 0, mQueueSizeOps |-> 0, mAge |-> 0, mTransactions |-> <<>>]

\* TransactionQueue.h:98-99, 129-135 and 158: the queue as constructed.
NewTransactionQueue ==
    [mPendingTransactions |-> [acc \in QueueAccounts |-> NoAccountTransactions],
     mBannedTransactions |-> [k \in 1..mBanDepth |-> {}],
     mQueueSizeOps |-> 0]

\* The hashes of the transactions of a vector.
HashesOf(txs) == {txs[i].fullHash : i \in 1..Len(txs)}

\* The hashes in the pending queue of any account.
PendingHashes(q) ==
    UNION {HashesOf(q.mPendingTransactions[acc].mTransactions) : acc \in QueueAccounts}

\* The hashes in any banned bucket.
BannedHashes(q) ==
    UNION {q.mBannedTransactions[k] : k \in 1..Len(q.mBannedTransactions)}

isBannedNever(q, hash) == FALSE

\* TransactionQueue.h:117
isBanned(q, hash) == hash \in BannedHashes(q)

\* TransactionQueue.h:116
countBanned(q, index) == Cardinality(q.mBannedTransactions[index + 1])

\* TransactionQueue.h:143-145: find.  The position of the transaction with
\* this hash in a vector, 0 when there is none.
FindHash(txs, hash) ==
    IF \E i \in 1..Len(txs) : txs[i].fullHash = hash
    THEN CHOOSE i \in 1..Len(txs) : txs[i].fullHash = hash
    ELSE 0

\* The position of the transaction with this sequence number, 0 when none.
FindSeq(txs, seqNum) ==
    IF \E i \in 1..Len(txs) : txs[i].seqNum = seqNum
    THEN CHOOSE i \in 1..Len(txs) : txs[i].seqNum = seqNum
    ELSE 0

\* The account's queue once txs are its transactions, at age age; an account
\* left without transactions loses its entry.
WithTransactions(acct, txs, age) ==
    IF txs = <<>> THEN NoAccountTransactions
    ELSE [mTotalFees |-> acct.mTotalFees, mQueueSizeOps |-> acct.mQueueSizeOps,
          mAge |-> age, mTransactions |-> txs]

\* TransactionQueue.h:155: releaseFee, and the operations count with it: tx
\* leaves the caches of its account and of the queue.
releaseFee(q, tx) ==
    [q EXCEPT !.mPendingTransactions[tx.sourceID].mTotalFees = @ - tx.feeBid,
              !.mPendingTransactions[tx.sourceID].mQueueSizeOps = @ - tx.numOperations,
              !.mQueueSizeOps = @ - tx.numOperations]

RECURSIVE ReleaseFees(_, _)
ReleaseFees(q, txs) ==
    IF txs = <<>> THEN q
    ELSE ReleaseFees(releaseFee(q, Head(txs)), Tail(txs))

\* TransactionQueue.h:146-149: extract.  The transactions at the positions
\* from..to leave the queue of the account; the account's age becomes age.
extract(q, acc, from, to, age) ==
    LET txs == q.mPendingTransactions[acc].mTransactions
        gone == SubSeq(txs, from, to)
        kept == SubSeq(txs, 1, from - 1) \o SubSeq(txs, to + 1, Len(txs))
        q1 == ReleaseFees(q, gone)
    IN  [q |-> [q1 EXCEPT !.mPendingTransactions[acc] = WithTransactions(@, kept, age)],
         txs |-> gone]

CanReplaceAlways(tx, old) == TRUE

\* Section 4.2, tryAdd, step 3: the incoming tx replaces old only if
\* feeBid >= FEE_MULTIPLIER * old.feeBid.
CanReplace(tx, old) == tx.feeBid >= FEE_MULTIPLIER * old.feeBid

\* a pays less per operation than b.
LowerFeePerOp(a, b) == a.feeBid * b.numOperations < b.feeBid * a.numOperations

\* Section 4.2, tryAdd, step 6: while the queue with netOps more operations
\* exceeds maxQueueSizeOps, the tail with the lowest fee per operation is
\* evicted; fits is FALSE when the incoming tx is the one to evict.
RECURSIVE MakeRoom(_, _, _)
MakeRoom(q, tx, netOps) ==
    IF q.mQueueSizeOps + netOps <= maxQueueSizeOps THEN [q |-> q, fits |-> TRUE]
    ELSE LET queued == {acc \in QueueAccounts :
                            q.mPendingTransactions[acc].mTransactions # <<>>}
             TailOf(acc) ==
                 LET txs == q.mPendingTransactions[acc].mTransactions
                 IN  txs[Len(txs)]
         IN  IF queued = {} THEN [q |-> q, fits |-> FALSE]
             ELSE LET acc == CHOOSE a \in queued :
                                 \A b \in queued : ~LowerFeePerOp(TailOf(b), TailOf(a))
                      n == Len(q.mPendingTransactions[acc].mTransactions)
                  IN  IF ~LowerFeePerOp(TailOf(acc), tx)
                      THEN [q |-> q, fits |-> FALSE]
                      ELSE MakeRoom(extract(q, acc, n, n,
                                            q.mPendingTransactions[acc].mAge).q,
                                    tx, netOps)

\* TransactionQueue.h:151-153 and section 4.2, tryAdd, steps 1 to 6.
\* onLedger: the account's sequence number in the ledger; covers: the account
\* can pay the fees of its queue and of tx.  old is the position of the
\* transaction tx replaces, 0 when it replaces none.
canAdd(q, tx, onLedger, covers) ==
    LET txs == q.mPendingTransactions[tx.sourceID].mTransactions
        old == FindSeq(txs, tx.seqNum)
        queueMaxSeq == IF txs = <<>> THEN 0 ELSE txs[Len(txs)].seqNum
        expected == (IF onLedger > queueMaxSeq THEN onLedger ELSE queueMaxSeq) + 1
        netOps == tx.numOperations - (IF old = 0 THEN 0 ELSE txs[old].numOperations)
        room == MakeRoom(q, tx, netOps)
    IN  IF isBanned(q, tx.fullHash) THEN [r |-> "ERROR", old |-> 0, q |-> q]
        ELSE IF tx.fullHash \in PendingHashes(q)
        THEN [r |-> "DUPLICATE", old |-> 0, q |-> q]
        ELSE IF old # 0 /\ ~CanReplace(tx, txs[old])
        THEN [r |-> "TRY_AGAIN_LATER", old |-> old, q |-> q]
        ELSE IF old = 0 /\ tx.seqNum # expected THEN [r |-> "ERROR", old |-> 0, q |-> q]
        ELSE IF ~covers THEN [r |-> "ERROR", old |-> old, q |-> q]
        ELSE IF ~room.fits THEN [r |-> "TRY_AGAIN_LATER", old |-> old, q |-> q]
        ELSE [r |-> "PENDING", old |-> old, q |-> room.q]

\* TransactionQueue.h:101 and section 4.2, tryAdd, step 7: insert, age 0,
\* update the caches.
tryAdd(q, tx, onLedger, covers) ==
    LET c == canAdd(q, tx, onLedger, covers)
        acc == tx.sourceID
        q1 == IF c.old = 0 THEN c.q
              ELSE releaseFee(c.q, c.q.mPendingTransactions[acc].mTransactions[c.old])
        txs == q1.mPendingTransactions[acc].mTransactions
        inserted == IF c.old = 0 THEN Append(txs, tx) ELSE [txs EXCEPT ![c.old] = tx]
    IN  IF c.r # "PENDING" THEN [q |-> q, r |-> c.r]
        ELSE [q |-> [q1 EXCEPT
                        !.mPendingTransactions[acc] =
                            [mTotalFees |-> @.mTotalFees + tx.feeBid,
                             mQueueSizeOps |-> @.mQueueSizeOps + tx.numOperations,
                             mAge |-> 0,
                             mTransactions |-> inserted],
                        !.mQueueSizeOps = @ + tx.numOperations],
              r |-> "PENDING"]

\* TransactionQueue.h:102 and section 4.2, removeAndReset: each tx and the
\* older transactions of its account leave the queue, and the age is 0.
RECURSIVE removeAndReset(_, _)
removeAndReset(q, txs) ==
    IF txs = <<>> THEN q
    ELSE LET tx == Head(txs)
             acct == q.mPendingTransactions[tx.sourceID]
             upTo == Cardinality({i \in 1..Len(acct.mTransactions) :
                                      acct.mTransactions[i].seqNum <= tx.seqNum})
             q1 == IF acct.mTransactions = <<>> THEN q
                   ELSE extract(q, tx.sourceID, 1, upTo, 0).q
         IN  removeAndReset(q1, Tail(txs))

\* TransactionQueue.h:103 and section 4.2, ban: a pending tx leaves its queue
\* with its descendants, their hashes go to banned bucket 0; the hash of a tx
\* that is not pending goes to bucket 0.
RECURSIVE ban(_, _)
ban(q, txs) ==
    IF txs = <<>> THEN q
    ELSE LET tx == Head(txs)
             acct == q.mPendingTransactions[tx.sourceID]
             at == FindHash(acct.mTransactions, tx.fullHash)
             e == extract(q, tx.sourceID, at, Len(acct.mTransactions), acct.mAge)
             q1 == IF at = 0
                   THEN [q EXCEPT !.mBannedTransactions[1] = @ \cup {tx.fullHash}]
                   ELSE [e.q EXCEPT !.mBannedTransactions[1] = @ \cup HashesOf(e.txs)]
         IN  ban(q1, Tail(txs))

RECURSIVE AgeAccountsEarly(_, _)
AgeAccountsEarly(q, accs) ==
    IF accs = {} THEN q
    ELSE LET acc == CHOOSE a \in accs : TRUE
             acct == q.mPendingTransactions[acc]
             q1 == IF acct.mTransactions = <<>> THEN q
                   ELSE IF acct.mAge + 2 = mPendingDepth
                   THEN ban(q, acct.mTransactions)
                   ELSE [q EXCEPT !.mPendingTransactions[acc].mAge = @ + 1]
         IN  AgeAccountsEarly(q1, accs \ {acc})

\* Section 4.2, shift, step 2, for the accounts of a set: the age of a queue
\* grows by one and a queue that reaches mPendingDepth is banned whole.
RECURSIVE AgeAccounts(_, _)
AgeAccounts(q, accs) ==
    IF accs = {} THEN q
    ELSE LET acc == CHOOSE a \in accs : TRUE
             acct == q.mPendingTransactions[acc]
             q1 == IF acct.mTransactions = <<>> THEN q
                   ELSE IF acct.mAge + 1 = mPendingDepth
                   THEN ban(q, acct.mTransactions)
                   ELSE [q EXCEPT !.mPendingTransactions[acc].mAge = @ + 1]
         IN  AgeAccounts(q1, accs \ {acc})

shiftUnbounded(q) ==
    AgeAccounts([q EXCEPT !.mBannedTransactions = <<{}>> \o @], QueueAccounts)

\* TransactionQueue.h:105-111 and section 4.2, shift: a fresh bucket at the
\* front of the banned deque, the oldest one popped, then the queues age.
shift(q) ==
    LET pushed == <<{}>> \o q.mBannedTransactions
        banned == IF Len(pushed) > mBanDepth THEN SubSeq(pushed, 1, mBanDepth) ELSE pushed
    IN  AgeAccounts([q EXCEPT !.mBannedTransactions = banned], QueueAccounts)

\* TransactionQueue.h:113-114 and 72-80.
getAccountTransactionQueueInfo(q, accountID) ==
    LET acct == q.mPendingTransactions[accountID]
        txs == acct.mTransactions
    IN  [mMaxSeq |-> IF txs = <<>> THEN 0 ELSE txs[Len(txs)].seqNum,
         mTotalFees |-> acct.mTotalFees,
         mQueueSizeOps |-> acct.mQueueSizeOps,
         mAge |-> acct.mAge]

\* What happened to an account since a transaction of it was last admitted:
\* on, a tryAdd of the account returned PENDING and neither another
\* admission nor a removeAndReset of the account followed; txs, the
\* account's queue right after that tryAdd; shifts, the shift() calls since;
\* touched, the last operation was a ban or an eviction that took a
\* transaction out of the account's queue.  The record is kept until the
\* operation after the one it is read at.
NotAdmitted == [on |-> FALSE, shifts |-> 0, txs |-> <<>>, touched |-> FALSE]

\* The shift() calls made in a row, at most mBanDepth of them counted, and
\* the hashes each of them took out of the pending queues, newest first.
NoShiftRun == [n |-> 0, aged |-> <<>>]

NoHistory ==
    [admitted |-> [acc \in QueueAccounts |-> NotAdmitted], shiftRun |-> NoShiftRun]

\* The account's record once op turned the queue q into q2.
AdmittedAfter(a, acc, q, q2, op) ==
    LET before == q.mPendingTransactions[acc].mTransactions
        after == q2.mPendingTransactions[acc].mTransactions
    IN  IF op.op = "tryAdd" /\ op.tx.sourceID = acc /\ op.r = "PENDING"
        THEN [on |-> TRUE, shifts |-> 0, txs |-> after, touched |-> FALSE]
        ELSE IF op.op = "removeAndReset"
                /\ \E i \in 1..Len(op.txs) : op.txs[i].sourceID = acc
        THEN NotAdmitted
        ELSE IF ~a.on \/ a.touched \/ a.shifts = mPendingDepth THEN NotAdmitted
        ELSE IF op.op = "shift" THEN [a EXCEPT !.shifts = @ + 1]
        ELSE [a EXCEPT !.touched = before # after]

\* The run of shifts once op turned the queue q into q2.
ShiftRunAfter(run, q, q2, op) ==
    IF op.op # "shift" THEN NoShiftRun
    ELSE LET aged == <<PendingHashes(q) \ PendingHashes(q2)>> \o run.aged
         IN  [n |-> IF run.n < mBanDepth THEN run.n + 1 ELSE mBanDepth,
              aged |-> IF Len(aged) > mBanDepth THEN SubSeq(aged, 1, mBanDepth) ELSE aged]

----------------------------------------------------------------------------
(* The state machine.                                                       *)

\* Herder.cpp:61
LEDGERS_TO_WAIT == 3

\* Herder.cpp:39
RECEIVED_BUCKETS == 4

\* Herder.cpp:36-71: the Herder constructed at time t with the configured fee.
NewHerder(t, fee) ==
    [mLedgersToWaitToParticipate |-> LEDGERS_TO_WAIT,
     mLastClosedLedger |-> NoLedger,
     mLastTrigger |-> t,
     mTxSetFetcher |-> [i \in {0, 1} |-> EmptyFetcher],
     mCurrentTxSetFetcher |-> 0,
     mTxSetFetches |-> EmptyMap,
     mReceivedTransactions |-> [n \in 1..RECEIVED_BUCKETS |-> <<>>],
     mFutureEnvelopes |-> EmptyMap,
     mLocalValue |-> BadValue,
     mBumpTimer |-> NoWait,
     DESIRED_BASE_FEE |-> fee,
     now |-> t,
     nCalls |-> 0,
     nEnvs |-> 0,
     out |-> <<>>]

\* The variables hold the Herder h, and no handler has run in this state.
Is(h) ==
    /\ mLedgersToWaitToParticipate = h.mLedgersToWaitToParticipate
    /\ mLastClosedLedger = h.mLastClosedLedger
    /\ mLastTrigger = h.mLastTrigger
    /\ mTxSetFetcher = h.mTxSetFetcher
    /\ mCurrentTxSetFetcher = h.mCurrentTxSetFetcher
    /\ mTxSetFetches = h.mTxSetFetches
    /\ mReceivedTransactions = h.mReceivedTransactions
    /\ mFutureEnvelopes = h.mFutureEnvelopes
    /\ mLocalValue = h.mLocalValue
    /\ mBumpTimer = h.mBumpTimer
    /\ DESIRED_BASE_FEE = h.DESIRED_BASE_FEE
    /\ now = h.now
    /\ nCalls = h.nCalls
    /\ nEnvs = h.nEnvs
    /\ mTransactionQueue = NewTransactionQueue
    /\ accountSeqNum = InitialSeqNums
    /\ history = NoHistory
    /\ out = <<>>
    /\ last = [op |-> "init"]

\* The clock starts at 0.
Init == Is(NewHerder(0, ConfiguredFee))

\* The Herder after a handler, and what the handler was.
Becomes(h, op) ==
    /\ mLedgersToWaitToParticipate' = h.mLedgersToWaitToParticipate
    /\ mLastClosedLedger' = h.mLastClosedLedger
    /\ mLastTrigger' = h.mLastTrigger
    /\ mTxSetFetcher' = h.mTxSetFetcher
    /\ mCurrentTxSetFetcher' = h.mCurrentTxSetFetcher
    /\ mTxSetFetches' = h.mTxSetFetches
    /\ mReceivedTransactions' = h.mReceivedTransactions
    /\ mFutureEnvelopes' = h.mFutureEnvelopes
    /\ mLocalValue' = h.mLocalValue
    /\ mBumpTimer' = h.mBumpTimer
    /\ DESIRED_BASE_FEE' = h.DESIRED_BASE_FEE
    /\ now' = h.now
    /\ nCalls' = h.nCalls
    /\ nEnvs' = h.nEnvs
    /\ UNCHANGED <<mTransactionQueue, accountSeqNum, history>>
    /\ out' = h.out
    /\ last' = op

\* The application starts a new network, or asks again: the Herder reads the
\* ledger's last closed header, which never goes back.
Bootstrap ==
    \E header \in Headers, valid \in BOOLEAN :
        /\ header.ledgerSeq >= mLastClosedLedger.ledgerSeq
        /\ mBumpTimer.waits = <<>>
        /\ Becomes(bootstrap(Herder, header, valid), [op |-> "bootstrap"])

ValidateValue ==
    \E slotIndex \in ValueSlots, value \in Values, valid \in BOOLEAN :
        /\ nCalls < MaxCalls
        /\ Becomes(validateValue(Herder, slotIndex, value, valid),
                   [op |-> "validateValue", id |-> nCalls + 1])

\* validateBallot reads slotIndex for its log lines only.
ValidateBallot ==
    \E slotIndex \in {mLastClosedLedger.ledgerSeq + 1}, value \in Values,
       counter \in Counters :
        \E ub \in PowOutcomes(counter) :
            /\ nCalls < MaxCalls
            /\ Becomes(validateBallot(Herder, slotIndex,
                                      [counter |-> counter, value |-> value], ub),
                       [op |-> "validateBallot", id |-> nCalls + 1, counter |-> counter,
                        value |-> value, ub |-> ub])

\* validateBallot, with what txSet->checkValid(mApp) returns at the time of
\* the call observed: valid.  validateBallot does not ask for it.
ValidateBallotChecked ==
    \E slotIndex \in {mLastClosedLedger.ledgerSeq + 1}, value \in Values,
       counter \in Counters, valid \in BOOLEAN :
        \E ub \in PowOutcomes(counter) :
            /\ nCalls < MaxCalls
            /\ Becomes(validateBallot(Herder, slotIndex,
                                      [counter |-> counter, value |-> value], ub),
                       [op |-> "validateBallot", id |-> nCalls + 1, counter |-> counter,
                        value |-> value, ub |-> ub, valid |-> valid])

ValueExternalized ==
    \E slotIndex \in {mLastClosedLedger.ledgerSeq + 1}, value \in Values :
        Becomes(valueExternalized(Herder, slotIndex, value),
                [op |-> "valueExternalized"])

\* valueExternalized, with the externalized value observed.
ValueExternalizedSeen ==
    \E slotIndex \in {mLastClosedLedger.ledgerSeq + 1}, value \in Values :
        Becomes(valueExternalized(Herder, slotIndex, value),
                [op |-> "valueExternalized", value |-> value])

RecvTxSet ==
    \E txSet \in NetTxSets, ok \in BOOLEAN, valid \in BOOLEAN :
        Becomes(recvTxSet(Herder, txSet, [tx \in TxObjs |-> ok], valid),
                [op |-> "recvTxSet", hash |-> ContentsHash(txSet)])

\* recvTxSet, with what txSet->checkValid(mApp) returns observed.
RecvTxSetChecked ==
    \E txSet \in NetTxSets, ok \in BOOLEAN, valid \in BOOLEAN :
        Becomes(recvTxSet(Herder, txSet, [tx \in TxObjs |-> ok], valid),
                [op |-> "recvTxSet", hash |-> ContentsHash(txSet), valid |-> valid])

RecvTransaction ==
    \E tx \in TxObjs, ok \in BOOLEAN :
        LET res == recvTransaction(Herder, tx, ok)
        IN  Becomes(res.h, [op |-> "recvTransaction", tx |-> tx, r |-> res.r])

\* The queue after one of its operations, and what the operation was; the
\* Herder of this source holds no TransactionQueue and is left as it is.
QueueBecomes(q, seqNums, op) ==
    /\ mTransactionQueue' = q
    /\ accountSeqNum' = seqNums
    /\ history' = [admitted |-> [acc \in QueueAccounts |->
                                     AdmittedAfter(history.admitted[acc], acc,
                                                   mTransactionQueue, q, op)],
                   shiftRun |-> ShiftRunAfter(history.shiftRun, mTransactionQueue, q, op)]
    /\ last' = op
    /\ out' = <<>>
    /\ UNCHANGED <<mLedgersToWaitToParticipate, mLastClosedLedger, mLastTrigger,
                   mTxSetFetcher, mCurrentTxSetFetcher, mTxSetFetches,
                   mReceivedTransactions, mFutureEnvelopes, mLocalValue, mBumpTimer,
                   DESIRED_BASE_FEE, now, nCalls, nEnvs>>

TryAdd ==
    \E tx \in QueueTxs, covers \in BOOLEAN :
        LET res == tryAdd(mTransactionQueue, tx, accountSeqNum[tx.sourceID], covers)
        IN  QueueBecomes(res.q, accountSeqNum,
                         [op |-> "tryAdd", tx |-> tx, covers |-> covers, r |-> res.r])

\* The transactions a ledger can apply, one after the other, to accounts at
\* seqNums.
AppliedTxs(seqNums) ==
    {<<tx>> : tx \in {t \in QueueTxs : t.seqNum = seqNums[t.sourceID] + 1}}
    \cup {<<TxA, TxB>> : x \in {a \in {"acc1"} : seqNums[a] + 1 = TxA.seqNum}}

\* The sequence numbers of the accounts once a ledger applied txs.
RECURSIVE SeqNumsAfter(_, _)
SeqNumsAfter(seqNums, txs) ==
    IF txs = <<>> THEN seqNums
    ELSE SeqNumsAfter([seqNums EXCEPT ![Head(txs).sourceID] = Head(txs).seqNum],
                      Tail(txs))

\* A ledger that includes txs closes: the Herder removes them from the queue.
RemoveAndReset ==
    \E txs \in AppliedTxs(accountSeqNum) :
        QueueBecomes(removeAndReset(mTransactionQueue, txs),
                     SeqNumsAfter(accountSeqNum, txs),
                     [op |-> "removeAndReset", txs |-> txs])

\* The vectors of transactions found invalid together.
BannedTogether == {<<TxA>>, <<TxB>>, <<TxC, TxAPrime>>}

Ban ==
    \E txs \in BannedTogether :
        QueueBecomes(ban(mTransactionQueue, txs), accountSeqNum,
                     [op |-> "ban", txs |-> txs])

Shift ==
    QueueBecomes(shift(mTransactionQueue), accountSeqNum, [op |-> "shift"])


RecvFBAEnvelope ==
    \E slotIndex \in Slots :
        /\ nEnvs < MaxEnvs
        /\ LET envelope == [id |-> nEnvs + 1, slotIndex |-> slotIndex]
           IN  Becomes(recvFBAEnvelope([Herder EXCEPT !.nEnvs = envelope.id], envelope),
                       [op |-> "recvFBAEnvelope", envelope |-> envelope])

EmitEnvelope ==
    \E slotIndex \in Slots :
        LET envelope == [id |-> 0, slotIndex |-> slotIndex]
        IN  Becomes(emitEnvelope(Herder, envelope),
                    [op |-> "emitEnvelope", envelope |-> envelope])

\* The slot-machine heard from a quorum on the current slot (the assert of
\* Herder.cpp:266 is the caller's obligation).
BallotDidHearFromQuorum ==
    \E counter \in HeardCounters :
        LET slotIndex == mLastClosedLedger.ledgerSeq + 1
        IN  /\ Len(mBumpTimer.aborted) < MaxWaits
            /\ Becomes(ballotDidHearFromQuorum(Herder, slotIndex,
                                               [counter |-> counter, value |-> mLocalValue]),
                       [op |-> "ballotDidHearFromQuorum", slotIndex |-> slotIndex,
                        counter |-> counter])

\* The clock runs a handler of the bump timer.
ExpireBallot ==
    \E due \in TimerDue(mBumpTimer, now) :
        Becomes(expireBallot([Herder EXCEPT !.mBumpTimer = TimerTake(@, due)],
                             due.error, due.handler.slotIndex),
                [op |-> "expireBallot", error |-> due.error, handler |-> due.handler])

\* The ledger closed a ledger and tells the Herder.
LedgerClosed ==
    \E ledger \in Headers, synced \in BOOLEAN :
        Becomes(ledgerClosed(Herder, ledger, synced),
                [op |-> "ledgerClosed", ledger |-> ledger, synced |-> synced])

Tick ==
    /\ now < MaxTime
    /\ Becomes([Herder EXCEPT !.now = @ + 1], [op |-> "tick"])

Next ==
    \/ Bootstrap
    \/ ValidateValue
    \/ ValidateBallot
    \/ ValueExternalized
    \/ RecvTxSet
    \/ RecvTransaction
    \/ RecvFBAEnvelope
    \/ EmitEnvelope
    \/ BallotDidHearFromQuorum
    \/ ExpireBallot
    \/ LedgerClosed
    \/ Tick
    \/ TryAdd
    \/ RemoveAndReset
    \/ Ban
    \/ Shift

Spec == Init /\ [][Next]_vars

NextValidation ==
    \/ Bootstrap
    \/ ValidateValue
    \/ ValidateBallot
    \/ ValueExternalized
    \/ RecvTxSet
    \/ RecvTransaction

SpecValidation == Init /\ [][NextValidation]_vars

NextEnvelopes ==
    \/ Bootstrap
    \/ RecvFBAEnvelope
    \/ EmitEnvelope

SpecEnvelopes == Init /\ [][NextEnvelopes]_vars

\* The bump timer and what arms and cancels it.
NextTimers ==
    \/ Bootstrap
    \/ BallotDidHearFromQuorum
    \/ ValueExternalized
    \/ ExpireBallot
    \/ Tick

SpecTimers == Init /\ [][NextTimers]_vars

\* Ledger closes and the proposal trigger.
NextTrigger ==
    \/ Bootstrap
    \/ LedgerClosed
    \/ RecvTransaction
    \/ ValueExternalized
    \/ Tick

SpecTrigger == Init /\ [][NextTrigger]_vars

----------------------------------------------------------------------------
(* The checks of validateBallot on wide inputs: clocks up to the last       *)
(* second an int holds, ballot counters past the last power of two that     *)
(* fits an int, and every fee around the range of the desired one.  The     *)
(* ballot's TxSet is in the buffer, so that the result is known at once.    *)

\* Seconds of the clock for the trigger and for the validation.
BallotTimes == {0, 1, 30, 31, 751, 811, INT_MAX - 60, INT_MAX - 59}

BallotCounters == {0, 6, 7, 33}

BallotCloseTimes == {0, 61, 62}

EmptyTxSet == [txs |-> <<>>, prev |-> NoLedger.hash]

\* The TransactionQueue under every sequence of its operations.
NextQueue ==
    \/ TryAdd
    \/ RemoveAndReset
    \/ Ban
    \/ Shift

SpecQueue == Init /\ [][NextQueue]_vars

\* Admission: transactions reach the Herder's pool and the queue, ledgers
\* close and the pool ages.
NextAdmission ==
    \/ Bootstrap
    \/ RecvTransaction
    \/ ValueExternalized
    \/ TryAdd
    \/ RemoveAndReset

SpecAdmission == Init /\ [][NextAdmission]_vars

\* Ballots whose TxSet the ledger finds valid or not.
NextBallotTxSet ==
    \/ Bootstrap
    \/ ValidateBallotChecked
    \/ RecvTxSetChecked

SpecBallotTxSet == Init /\ [][NextBallotTxSet]_vars

\* Externalizations, of TxSets the current buffer holds and of others.
NextExternalize ==
    \/ Bootstrap
    \/ RecvTransaction
    \/ ValidateValue
    \/ RecvTxSet
    \/ ValueExternalizedSeen

SpecExternalize == Init /\ [][NextExternalize]_vars

\* The clock values and the close times of the last closed ledger a proposal
\* is made at: the ledger closed before the clock's time, at it, and up to
\* MAX_TIME_SLIP_SECONDS and more after it.
ProposalTimes == {0, 1, 100}
ProposalCloseTimes == {0, 1, 59, 60, 99, 100, 159, 160, 161}

\* A Herder constructed at second t with the desired fee fee.
InitProposal ==
    \E t \in ProposalTimes, fee \in 0..MaxFee : Is(NewHerder(t, fee))

\* bootstrap() on a ledger closed at any of ProposalCloseTimes.
BootstrapAtCloseTime ==
    \E closeTime \in ProposalCloseTimes, valid \in BOOLEAN :
        /\ last.op # "bootstrap"
        /\ mLocalValue = BadValue
        /\ Becomes(bootstrap(Herder, [ledgerSeq |-> 9, closeTime |-> closeTime,
                                      hash |-> "L9"], valid),
                   [op |-> "bootstrap"])

\* The slot-machine has the node validate its own proposal right after
\* triggerNextLedger; valid: the proposed TxSet passes checkValid.
ValidateOwnValue ==
    \E valid \in BOOLEAN :
        /\ last.op = "bootstrap"
        /\ Becomes(validateValue(Herder, mLastClosedLedger.ledgerSeq + 1, mLocalValue,
                                 valid),
                   [op |-> "validateValue", id |-> nCalls + 1, valid |-> valid])

ValidateOwnBallot ==
    \E ub \in PowOutcomes(0) :
        /\ last.op = "bootstrap"
        /\ Becomes(validateBallot(Herder, mLastClosedLedger.ledgerSeq + 1,
                                  [counter |-> 0, value |-> mLocalValue], ub),
                   [op |-> "validateBallot", id |-> nCalls + 1])

NextProposal ==
    \/ RecvTransaction
    \/ BootstrapAtCloseTime
    \/ ValidateOwnValue
    \/ ValidateOwnBallot

SpecProposal == InitProposal /\ [][NextProposal]_vars

\* A Herder constructed at second t0 and read at second t, after the empty
\* TxSet arrived.  The checks read the clock, the trigger time and the
\* configuration, which a validation leaves as they are: each Herder
\* validates one ballot.
InitBallot ==
    \E t0 \in BallotTimes, t \in BallotTimes, fee \in 0..MaxFee :
        /\ t0 <= t
        /\ Is([recvTxSet(NewHerder(t0, fee), EmptyTxSet, [tx \in TxObjs |-> TRUE], TRUE)
                  EXCEPT !.now = t])

ValidateBallotWide ==
    \E counter \in BallotCounters, closeTime \in BallotCloseTimes,
       baseFee \in 0..(2 * MaxFee + 1) :
        \E ub \in PowOutcomes(counter) :
            LET value == [txSetHash |-> ContentsHash(EmptyTxSet),
                          closeTime |-> closeTime, baseFee |-> baseFee]
            IN  /\ last.op = "init"
                /\ Becomes(validateBallot(Herder, mLastClosedLedger.ledgerSeq + 1,
                                          [counter |-> counter, value |-> value], ub),
                           [op |-> "validateBallot", id |-> nCalls + 1,
                            counter |-> counter, value |-> value, ub |-> ub])

NextBallot == ValidateBallotWide

SpecBallot == InitBallot /\ [][NextBallot]_vars

----------------------------------------------------------------------------
(* What a handler did, read from the calls it made.                         *)

\* The indexes of the result callbacks of the validation id among the calls o.
CbsOf(o, id) == {i \in 1..Len(o) : o[i].type = "cb" /\ o[i].c.id = id}

\* The validations whose result callback ran, in the order of the callbacks.
CbCaptures(o) ==
    LET cbs == SelectSeq(o, LAMBDA e : e.type = "cb")
    IN  [i \in 1..Len(cbs) |-> cbs[i].c]

\* The envelopes handed to the slot-machine, in the order of the calls.
Delivered(o) ==
    LET es == SelectSeq(o, LAMBDA e : e.type = "receiveEnvelope")
    IN  [i \in 1..Len(es) |-> es[i].envelope]

\* The validation id got as far as asking the fetcher for its TxSet.
Fetched(o, id) == \E i \in 1..Len(o) : o[i].type = "fetchTxSet" /\ o[i].id = id

\* The validation id is parked in the pending-fetch table t.
Parked(t, id) == \E hash \in DOMAIN t : \E i \in 1..Len(t[hash]) : t[hash][i].id = id

Accepted(o, id) == \E i \in CbsOf(o, id) : o[i].result

Rejected(o, id) == CbsOf(o, id) # {} /\ \A i \in CbsOf(o, id) : ~o[i].result

----------------------------------------------------------------------------
(* C1.  A validation that reaches the fetch of its TxSet and misses the     *)
(* buffer gets no callback during the call; on a hit it gets exactly one    *)
(* callback inside the call.  When recvTxSet processes a TxSet, every       *)
(* validation parked under its content hash gets its callback exactly once, *)
(* and a validation whose callback ran is parked no longer, so that no      *)
(* later recvTxSet runs it again.                                           *)
C1_CallbackExactlyOnce ==
    [][/\ \A i \in 1..Len(out') :
            out'[i].type = "fetchTxSet" =>
                Cardinality(CbsOf(out', out'[i].id)) = (IF out'[i].found THEN 1 ELSE 0)
       /\ (last'.op = "recvTxSet" /\ last'.hash \in DOMAIN mTxSetFetches) =>
            \A i \in 1..Len(mTxSetFetches[last'.hash]) :
                Cardinality(CbsOf(out', mTxSetFetches[last'.hash][i].id)) = 1
       /\ \A i \in 1..Len(out') :
            out'[i].type = "cb" => ~Parked(mTxSetFetches', out'[i].c.id)
      ]_vars

(* C2.  Once recvTxSet(T) has been processed the pending-fetch table holds  *)
(* no list for T's content hash, and the validations that were parked under *)
(* the hash have all run, in the order they were parked.                    *)
C2_ListDrainedInOrder ==
    [][last'.op = "recvTxSet" =>
          /\ last'.hash \notin DOMAIN mTxSetFetches'
          /\ last'.hash \in DOMAIN mTxSetFetches =>
                CbCaptures(out') = mTxSetFetches[last'.hash]
      ]_vars

(* C3.  While the node is synced no validateValue callback reports true for *)
(* a value of another slot than lastClosedLedger.seq + 1 or with a         *)
(* closeTime that is not after the last closed ledger's, whether the        *)
(* callback runs inside validateValue or later from a parked validation.    *)
C3_NoStaleValueAccepted ==
    \A i \in 1..Len(out) :
        (/\ out[i].type = "cb"
         /\ out[i].c.kind = "value"
         /\ out[i].result
         /\ mLedgersToWaitToParticipate = 0)
        => /\ out[i].c.slotIndex = mLastClosedLedger.ledgerSeq + 1
           /\ out[i].c.b.closeTime > mLastClosedLedger.closeTime

----------------------------------------------------------------------------
(* The sum of the timeouts of the ballot counters below k, in the integers. *)

\* min(MAX_FBA_TIMEOUT_SECONDS, 2^i); from i = 31 on the power is above any
\* timeout an int holds.
Timeout(i) ==
    IF i >= 31 THEN MAX_FBA_TIMEOUT_SECONDS ELSE Min(MAX_FBA_TIMEOUT_SECONDS, 2 ^ i)

RECURSIVE S(_)
S(k) == IF k = 0 THEN 0 ELSE S(k - 1) + Timeout(k - 1)

\* The checks of validateBallot before and after the counter check pass.
CloseTimeAndFeePass ==
    /\ last.value.closeTime - now <= MAX_TIME_SLIP_SECONDS
    /\ 2 * last.value.baseFee >= DESIRED_BASE_FEE
    /\ last.value.baseFee <= 2 * DESIRED_BASE_FEE

(* C4.  validateBallot never accepts a ballot with                          *)
(* now + MAX_TIME_SLIP_SECONDS < lastTrigger + S(counter); at               *)
(* now + MAX_TIME_SLIP_SECONDS = lastTrigger + S(counter) the counter check *)
(* passes (the validation goes on to its TxSet when the other checks pass), *)
(* and one second earlier the ballot is rejected.                           *)
C4_CounterTimeBound ==
    (last.op = "validateBallot" /\ last.value # BadValue) =>
        LET elapsed == now - mLastTrigger
            bound == S(last.counter) - MAX_TIME_SLIP_SECONDS
        IN  /\ Accepted(out, last.id) => elapsed >= bound
            /\ (elapsed = bound /\ CloseTimeAndFeePass) => Fetched(out, last.id)
            /\ elapsed = bound - 1 => Rejected(out, last.id)

(* C5.  validateBallot rejects every ballot whose baseFee is below half the *)
(* desired base fee or above twice the desired base fee, and the fee check  *)
(* passes for every baseFee in between, both ends included: when the        *)
(* closeTime and counter checks before it pass, the validation goes on to   *)
(* its TxSet.                                                               *)
C5_BaseFeeRange ==
    (last.op = "validateBallot" /\ last.value # BadValue) =>
        LET baseFee == last.value.baseFee
            outside == 2 * baseFee < DESIRED_BASE_FEE \/ baseFee > 2 * DESIRED_BASE_FEE
        IN  /\ outside => Rejected(out, last.id) /\ ~Fetched(out, last.id)
            /\ (/\ ~outside
                /\ ~CloseTimeTooFar(last.value.closeTime, now)
                /\ ~CounterTooHigh(now, mLastTrigger, last.counter, last.ub))
               => Fetched(out, last.id)

\* A ballot with baseFee = ceil(D / 2) for an odd D passed the fee check.
C5_Witness ==
    /\ last.op = "validateBallot"
    /\ last.value # BadValue
    /\ DESIRED_BASE_FEE % 2 = 1
    /\ 2 * last.value.baseFee = DESIRED_BASE_FEE + 1
    /\ Fetched(out, last.id)
    /\ Accepted(out, last.id)

\* The hashes of the transactions of a TxSet.
TxHashes(txSet) == {FullHash(tx) : tx \in Range(txSet.txs)}

(* C6.  A validateBallot callback reports true only if the TxSet holds      *)
(* every transaction of the oldest bucket of the received transactions at   *)
(* the moment the TxSet is checked, inside validateBallot or when recvTxSet *)
(* resumes the validation; when a transaction of the bucket is missing the  *)
(* callback reports false.                                                  *)
C6_OldestBucketIncluded ==
    \A i \in 1..Len(out) :
        (out[i].type = "cb" /\ out[i].c.kind = "ballot" /\ out[i].txSet # NoTxSet) =>
            LET oldest == mReceivedTransactions[Len(mReceivedTransactions)]
                missing == \E tx \in Range(oldest) : FullHash(tx) \notin TxHashes(out[i].txSet)
            IN  /\ out[i].result => ~missing
                /\ missing => ~out[i].result

\* A ballot was accepted while the oldest bucket held a transaction.
C6_Witness ==
    /\ mReceivedTransactions[Len(mReceivedTransactions)] # <<>>
    /\ \E i \in 1..Len(out) :
          out[i].type = "cb" /\ out[i].c.kind = "ballot" /\ out[i].result

----------------------------------------------------------------------------
(* C7.  A synced node that receives an envelope for a slot after            *)
(* lastClosedLedger.seq + 1, inside the validity bracket, only buffers it   *)
(* in mFutureEnvelopes: recvFBAEnvelope does not hand it to the             *)
(* slot-machine.                                                            *)
C7_FutureEnvelopeOnlyBuffered ==
    [][(/\ last'.op = "recvFBAEnvelope"
        /\ mLedgersToWaitToParticipate = 0
        /\ last'.envelope.slotIndex > mLastClosedLedger.ledgerSeq + 1
        /\ last'.envelope.slotIndex <= mLastClosedLedger.ledgerSeq + LEDGER_VALIDITY_BRACKET)
       => /\ Delivered(out') = <<>>
          /\ last'.envelope.slotIndex \in DOMAIN mFutureEnvelopes'
          /\ last'.envelope \in Range(mFutureEnvelopes'[last'.envelope.slotIndex])
      ]_vars

(* C8.  triggerNextLedger for slot S = lastClosedLedger.seq + 1 hands the   *)
(* envelopes buffered for S to the slot-machine, each once and in the order *)
(* they were received, after it called prepareValue for S; when it returns  *)
(* mFutureEnvelopes has no bucket for S.                                    *)
C8_FutureEnvelopesReplayed ==
    [][last'.op = "bootstrap" =>
          LET slot == mLastClosedLedger'.ledgerSeq + 1
              buffered == IF slot \in DOMAIN mFutureEnvelopes
                          THEN mFutureEnvelopes[slot]
                          ELSE <<>>
          IN  /\ Delivered(out') = buffered
              /\ slot \notin DOMAIN mFutureEnvelopes'
              /\ \A i \in 1..Len(out') :
                    out'[i].type = "receiveEnvelope" =>
                        \E j \in 1..(i - 1) :
                            out'[j].type = "prepareValue" /\ out'[j].slotIndex = slot
      ]_vars

\* A trigger replayed two buffered envelopes.
C8_Witness ==
    /\ last.op = "bootstrap"
    /\ Len(Delivered(out)) >= 2

(* C9.  A synced node drops an envelope whose slot is outside               *)
(* [max(0, lcl.seq - LEDGER_VALIDITY_BRACKET), lcl.seq +                    *)
(* LEDGER_VALIDITY_BRACKET]: recvFBAEnvelope calls nothing and buffers      *)
(* nothing.  An envelope inside the bracket is handed to the slot-machine   *)
(* or buffered.  A node that is not synced hands every envelope to the      *)
(* slot-machine and buffers none.                                           *)
C9_ValidityBracket ==
    [][last'.op = "recvFBAEnvelope" =>
          LET slotIndex == last'.envelope.slotIndex
              lcl == mLastClosedLedger.ledgerSeq
              lowest == IF lcl > LEDGER_VALIDITY_BRACKET
                        THEN lcl - LEDGER_VALIDITY_BRACKET
                        ELSE 0
              inside == lowest <= slotIndex /\ slotIndex <= lcl + LEDGER_VALIDITY_BRACKET
          IN  IF mLedgersToWaitToParticipate = 0
              THEN IF inside
                   THEN \/ last'.envelope \in Range(Delivered(out'))
                        \/ /\ slotIndex \in DOMAIN mFutureEnvelopes'
                           /\ last'.envelope \in Range(mFutureEnvelopes'[slotIndex])
                   ELSE out' = <<>> /\ mFutureEnvelopes' = mFutureEnvelopes
              ELSE /\ Delivered(out') = <<last'.envelope>>
                   /\ mFutureEnvelopes' = mFutureEnvelopes
      ]_vars

\* A synced node dropped an envelope.
C9_Witness ==
    /\ last.op = "recvFBAEnvelope"
    /\ mLedgersToWaitToParticipate = 0
    /\ OutOfBracket(mLastClosedLedger.ledgerSeq, last.envelope.slotIndex)
    /\ out = <<>>

(* C10.  emitEnvelope broadcasts nothing while                              *)
(* mLedgersToWaitToParticipate > 0; when it is 0, emitEnvelope broadcasts   *)
(* exactly one FBA message, which carries the envelope.                     *)
C10_EmitOnlyWhenSynced ==
    last.op = "emitEnvelope" =>
        IF mLedgersToWaitToParticipate > 0
        THEN out = <<>>
        ELSE out = <<[type |-> "broadcastMessage",
                      msg |-> [type |-> "FBA_MESSAGE", envelope |-> last.envelope]]>>

\* A synced node broadcast an envelope.
C10_Witness ==
    /\ last.op = "emitEnvelope"
    /\ mLedgersToWaitToParticipate = 0
    /\ Len(out) = 1

----------------------------------------------------------------------------
(* C11.  After ballotDidHearFromQuorum(s, ballot) on a synced node the bump *)
(* timer waits with the handler bound to (s, ballot) and expires            *)
(* 2^ballot.counter seconds from now; a handler run on expiry calls         *)
(* prepareValue(s, localValue, bumpCounter = true), once.                   *)
C11_BumpTimerArmed ==
    /\ (last.op = "ballotDidHearFromQuorum" /\ mLedgersToWaitToParticipate = 0) =>
          /\ mBumpTimer.waits = <<[slotIndex |-> last.slotIndex, counter |-> last.counter]>>
          /\ mBumpTimer.expires = now + 2 ^ last.counter
    /\ (last.op = "expireBallot" /\ last.error = "success") =>
          out = <<[type |-> "prepareValue", slotIndex |-> last.handler.slotIndex,
                   value |-> mLocalValue, bumpCounter |-> TRUE]>>

(* C12.  At most one wait of the bump timer is pending; valueExternalized   *)
(* leaves none pending; a handler run with operation_aborted calls          *)
(* nothing; while mLedgersToWaitToParticipate > 0 the bump timer has no     *)
(* wait, pending or cancelled.                                              *)
C12_OneBumpWait ==
    /\ Len(mBumpTimer.waits) <= 1
    /\ last.op = "valueExternalized" => mBumpTimer.waits = <<>>
    /\ (last.op = "expireBallot" /\ last.error = "operation_aborted") => out = <<>>
    /\ mLedgersToWaitToParticipate > 0 =>
          mBumpTimer.waits = <<>> /\ mBumpTimer.aborted = <<>>

\* The handler of a cancelled wait ran.
C12_Witness ==
    /\ last.op = "expireBallot"
    /\ last.error = "operation_aborted"
    /\ out = <<>>

(* C13.  A ledgerClosed while the application is SYNCED and                 *)
(* mLedgersToWaitToParticipate > 0 decrements the counter by one; a         *)
(* ledgerClosed while the application is not SYNCED leaves it as it was.    *)
C13_SyncGateCountsDown ==
    [][last'.op = "ledgerClosed" =>
          mLedgersToWaitToParticipate' =
              IF last'.synced /\ mLedgersToWaitToParticipate > 0
              THEN mLedgersToWaitToParticipate - 1
              ELSE mLedgersToWaitToParticipate
      ]_vars

(* C14.  A ledgerClosed(header) after which the node participates records   *)
(* header as mLastClosedLedger.                                             *)
C14_LedgerClosedRecordsHeader ==
    [][(last'.op = "ledgerClosed" /\ mLedgersToWaitToParticipate' = 0) =>
          mLastClosedLedger' = last'.ledger
      ]_vars

----------------------------------------------------------------------------
\* The TxSets that the handler handed to the ledger as externalized.
Externalized(o) ==
    {o[i].txSet : i \in {j \in 1..Len(o) : o[j].type = "externalizeValue"}}

\* The transactions in the buckets of the pool.
PoolTxs(buckets) == UNION {Range(buckets[n]) : n \in 1..Len(buckets)}

\* The hashes of the transactions in the buckets of the pool.
PoolHashes(buckets) == {FullHash(tx) : tx \in PoolTxs(buckets)}

(* C15.  After a valueExternalized that found its TxSet, no transaction of  *)
(* that TxSet is in any bucket of mReceivedTransactions.                    *)
C15_ExternalizedTxsLeavePool ==
    last.op = "valueExternalized" =>
        \A txSet \in Externalized(out) :
            TxHashes(txSet) \cap PoolHashes(mReceivedTransactions) = {}

(* C16.  A valueExternalized that found its TxSet stops the fetches of the  *)
(* buffer that was current, makes the other buffer current, and leaves the  *)
(* buffer that was current before the call empty.                           *)
C16_OldBufferCleared ==
    [][(last'.op = "valueExternalized" /\ Externalized(out') # {}) =>
          /\ mCurrentTxSetFetcher' # mCurrentTxSetFetcher
          /\ mTxSetFetcher'[mCurrentTxSetFetcher].fetching = {}
          /\ mTxSetFetcher'[mCurrentTxSetFetcher].items = EmptyMap
      ]_vars

\* The number of transactions in the buckets of the pool.
RECURSIVE PoolSize(_)
PoolSize(buckets) ==
    IF buckets = <<>> THEN 0 ELSE Len(Head(buckets)) + PoolSize(Tail(buckets))

(* C17.  triggerNextLedger sets mLastTrigger to now; the TxSet it proposes  *)
(* holds exactly the transactions of all the buckets, on the last closed    *)
(* ledger's hash, and fetchTxSet(its hash, false) returns it; mLocalValue   *)
(* is {that hash, max(now, lcl.closeTime + 1), DESIRED_BASE_FEE}; and       *)
(* prepareValue is called once, for slot lcl.seq + 1 with mLocalValue and   *)
(* no counter bump.                                                         *)
C17_TriggerProposesPool ==
    last.op = "bootstrap" =>
        LET lcl == mLastClosedLedger
            proposed == fetchTxSet(Herder, mLocalValue.txSetHash, FALSE).item
            prepares == SelectSeq(out, LAMBDA e : e.type = "prepareValue")
        IN  /\ mLastTrigger = now
            /\ proposed # NoTxSet
            /\ Range(proposed.txs) = PoolTxs(mReceivedTransactions)
            /\ Len(proposed.txs) = PoolSize(mReceivedTransactions)
            /\ proposed.prev = lcl.hash
            /\ mLocalValue =
                  [txSetHash |-> ContentsHash(proposed),
                   closeTime |-> IF now > lcl.closeTime + 1 THEN now ELSE lcl.closeTime + 1,
                   baseFee |-> DESIRED_BASE_FEE]
            /\ prepares = <<[type |-> "prepareValue", slotIndex |-> lcl.ledgerSeq + 1,
                             value |-> mLocalValue, bumpCounter |-> FALSE]>>

\* A trigger after the last close time that proposed a transaction of a
\* bucket other than the newest.
C17_Witness ==
    /\ last.op = "bootstrap"
    /\ now > mLastClosedLedger.closeTime
    /\ mReceivedTransactions[1] = <<>>
    /\ PoolSize(mReceivedTransactions) > 0

----------------------------------------------------------------------------
(* The TransactionQueue.                                                    *)

\* The transactions pending for an account.
PendingOf(acc) == mTransactionQueue.mPendingTransactions[acc].mTransactions

\* The number of transactions pending over all accounts.
RECURSIVE PendingCount(_, _)
PendingCount(q, accs) ==
    IF accs = {} THEN 0
    ELSE LET acc == CHOOSE a \in accs : TRUE
         IN  Len(q.mPendingTransactions[acc].mTransactions)
             + PendingCount(q, accs \ {acc})

\* No hash is pending and banned at once.
BanExclusive ==
    PendingHashes(mTransactionQueue) \cap BannedHashes(mTransactionQueue) = {}

\* A step that is tryAdd(tx).
TryAddStep(tx) ==
    /\ last'.op = "tryAdd"
    /\ last'.tx = tx
    /\ last' # last

(* C18: after any sequence of tryAdd, removeAndReset, ban and shift no hash *)
(* is both in a pending account queue and in a banned bucket; tryAdd of a   *)
(* banned hash returns ERROR and leaves the queue unchanged; ban of a       *)
(* pending transaction removes it and all its higher-seq descendants from   *)
(* the pending queue (their hashes are then in banned bucket 0).            *)
C18_BanExclusivity ==
    /\ []BanExclusive
    /\ [][\A tx \in QueueTxs :
              (TryAddStep(tx) /\ isBanned(mTransactionQueue, tx.fullHash))
              => (last'.r = "ERROR" /\ mTransactionQueue' = mTransactionQueue)]_vars
    /\ [][(last'.op = "ban" /\ last' # last)
          => \A k \in 1..Len(last'.txs) :
                 LET tx == last'.txs[k]
                     txs == PendingOf(tx.sourceID)
                     at == FindHash(txs, tx.fullHash)
                 IN  at # 0
                     => \A j \in at..Len(txs) :
                            /\ txs[j].fullHash \notin PendingHashes(mTransactionQueue')
                            /\ txs[j].fullHash \in mTransactionQueue'.mBannedTransactions[1]]_vars

\* A was banned while B was behind it: both are banned and neither is
\* pending, while the other account keeps its transaction.
C18_Witness ==
    /\ last.op = "ban"
    /\ last.txs = <<TxA>>
    /\ {"hA", "hB"} \subseteq mTransactionQueue.mBannedTransactions[1]
    /\ PendingOf("acc1") = <<>>
    /\ PendingOf("acc2") = <<TxC>>

(* C19: when a transaction is admitted (tryAdd returns PENDING,             *)
(* recvTransaction returns true) and the same transaction is submitted      *)
(* again at once, the second call reports a duplicate (DUPLICATE, false)    *)
(* and leaves the pool as the first call left it; no reachable pool holds   *)
(* two transactions with the same fullHash.                                 *)
C19_AdmissionIdempotent ==
    /\ [](/\ Cardinality(PendingHashes(mTransactionQueue))
              = PendingCount(mTransactionQueue, QueueAccounts)
          /\ Cardinality(PoolHashes(mReceivedTransactions))
              = PoolSize(mReceivedTransactions))
    /\ [][(/\ last.op = "tryAdd"
           /\ last.r = "PENDING"
           /\ last'.op = "tryAdd"
           /\ last'.tx = last.tx)
          => (/\ last'.r = "DUPLICATE"
              /\ mTransactionQueue' = mTransactionQueue)]_vars
    /\ [][(/\ last.op = "recvTransaction"
           /\ last.r
           /\ last'.op = "recvTransaction"
           /\ last'.tx = last.tx)
          => (/\ ~last'.r
              /\ mReceivedTransactions' = mReceivedTransactions)]_vars

\* A pending transaction was submitted to the queue again, while the
\* Herder's pool holds a transaction a ledger close moved to an older bucket.
C19_Witness ==
    /\ last.op = "tryAdd"
    /\ last.r = "DUPLICATE"
    /\ last.tx.fullHash \in PendingHashes(mTransactionQueue)
    /\ mReceivedTransactions[1] = <<>>
    /\ PoolSize(mReceivedTransactions) > 0

\* The step is tryAdd(tx) by an account that can pay, with A alone pending
\* for the account and tx not banned.
ReplacesA(tx) ==
    /\ TryAddStep(tx)
    /\ last'.covers
    /\ PendingOf("acc1") = <<TxA>>
    /\ ~isBanned(mTransactionQueue, tx.fullHash)

(* C20: with A (seq 5, feeBid 100) pending, tryAdd of A' (same account, seq *)
(* 5, another hash, feeBid 999) returns PENDING and replaces A: the         *)
(* account's info is then maxSeq 5, totalFees 999, age 0 and A is not       *)
(* pending.                                                                 *)
C20_ReplacementAt999 ==
    [][ReplacesA(TxAPrime)
       => (/\ last'.r = "PENDING"
           /\ getAccountTransactionQueueInfo(mTransactionQueue', "acc1")
                  = [mMaxSeq |-> 5, mTotalFees |-> 999, mQueueSizeOps |-> 1, mAge |-> 0]
           /\ "hA" \notin PendingHashes(mTransactionQueue'))]_vars

(* C20, as the queue behaves: a replacement needs feeBid >= FEE_MULTIPLIER  *)
(* * old.feeBid = 1000.  With A pending, tryAdd of A' (feeBid 999) returns  *)
(* TRY_AGAIN_LATER and leaves the queue as it was, A pending; tryAdd of a   *)
(* transaction of the same account and seq with feeBid 1000 returns PENDING *)
(* and replaces A: info is maxSeq 5, totalFees 1000, age 0, A not pending.  *)
C20_ReplacementNeedsTenfold ==
    /\ [][ReplacesA(TxAPrime)
          => (/\ last'.r = "TRY_AGAIN_LATER"
              /\ mTransactionQueue' = mTransactionQueue)]_vars
    /\ [][ReplacesA(TxATen)
          => (/\ last'.r = "PENDING"
              /\ getAccountTransactionQueueInfo(mTransactionQueue', "acc1")
                     = [mMaxSeq |-> 5, mTotalFees |-> 1000, mQueueSizeOps |-> 1,
                        mAge |-> 0]
              /\ PendingOf("acc1")' = <<TxATen>>)]_vars

\* A' was refused with A pending, after A aged by one ledger.
C20_Witness ==
    /\ last.op = "tryAdd"
    /\ last.tx = TxAPrime
    /\ last.covers
    /\ last.r = "TRY_AGAIN_LATER"
    /\ PendingOf("acc1") = <<TxA>>
    /\ getAccountTransactionQueueInfo(mTransactionQueue, "acc1")
           = [mMaxSeq |-> 5, mTotalFees |-> 100, mQueueSizeOps |-> 1, mAge |-> 1]

\* The account's queue is as its last admission left it, at the age of the
\* shifts made since, and none of its transactions is banned.
StillPending(acc) ==
    LET a == history.admitted[acc]
    IN  /\ PendingOf(acc) = a.txs
        /\ mTransactionQueue.mPendingTransactions[acc].mAge = a.shifts
        /\ HashesOf(a.txs) \cap BannedHashes(mTransactionQueue) = {}

\* The account has no pending queue and the transactions of its last
\* admission are in banned bucket 0.
AgedOut(acc) ==
    /\ PendingOf(acc) = <<>>
    /\ HashesOf(history.admitted[acc].txs) \subseteq mTransactionQueue.mBannedTransactions[1]

(* C21: after a tryAdd that returns PENDING, with no tryAdd or              *)
(* removeAndReset for the account in between, the account's transactions    *)
(* are still pending and not banned after fewer than pendingDepth shifts,   *)
(* and after the pendingDepth-th shift they are in banned bucket 0 and the  *)
(* account has no pending queue.                                            *)
C21_AgingToBan ==
    \A acc \in QueueAccounts :
        LET a == history.admitted[acc]
        IN  a.on => /\ a.shifts < mPendingDepth => StillPending(acc)
                    /\ a.shifts = mPendingDepth => AgedOut(acc)

(* C21, as the queue behaves: the same, provided that in between no ban     *)
(* takes a transaction of the account out of its queue and no admission to  *)
(* another account evicts one; either removes the transaction before the    *)
(* pendingDepth-th shift.                                                   *)
C21_AgingToBanUntouched ==
    \A acc \in QueueAccounts :
        LET a == history.admitted[acc]
        IN  (a.on /\ ~a.touched)
            => /\ a.shifts < mPendingDepth => StillPending(acc)
               /\ a.shifts = mPendingDepth => AgedOut(acc)

\* A and B were admitted and the fourth shift since has just banned both.
C21_Witness ==
    /\ last.op = "shift"
    /\ history.admitted["acc1"].on
    /\ history.admitted["acc1"].shifts = mPendingDepth
    /\ history.admitted["acc1"].txs = <<TxA, TxB>>
    /\ {"hA", "hB"} \subseteq mTransactionQueue.mBannedTransactions[1]
    /\ PendingOf("acc1") = <<>>

\* The banned deque holds at most banDepth buckets.
BannedBounded == Len(mTransactionQueue.mBannedTransactions) <= mBanDepth

(* C22: from any reachable state of the queue, banDepth calls of shift()    *)
(* with no other operation in between leave every banned bucket empty; the  *)
(* banned deque never holds more than banDepth buckets.                     *)
C22_ShiftsEmptyBanned ==
    /\ BannedBounded
    /\ history.shiftRun.n = mBanDepth => BannedHashes(mTransactionQueue) = {}

(* C22, as the queue behaves: after banDepth calls of shift() in a row no   *)
(* hash banned before them is still banned, and bucket k holds exactly the  *)
(* hashes of the queues the k-th latest of these shifts banned for reaching *)
(* pendingDepth: every bucket is empty only if no queue aged out during     *)
(* them.  The banned deque never holds more than banDepth buckets.          *)
C22_ShiftsKeepOnlyAged ==
    /\ BannedBounded
    /\ history.shiftRun.n = mBanDepth
       => \A k \in 1..mBanDepth :
              mTransactionQueue.mBannedTransactions[k] = history.shiftRun.aged[k]

\* banDepth shifts in a row emptied the banned buckets while a young queue
\* stayed pending.
C22_Witness ==
    /\ history.shiftRun.n = mBanDepth
    /\ BannedHashes(mTransactionQueue) = {}
    /\ PendingOf("acc1") = <<TxA, TxB>>
    /\ accountSeqNum["acc2"] = 1

----------------------------------------------------------------------------
(* Ballots and the validity of their TxSet.                                 *)

\* The callbacks of ballot validations the last handler ran with the TxSet
\* in hand.
BallotCbs(o) ==
    {i \in 1..Len(o) : o[i].type = "cb" /\ o[i].c.kind = "ballot" /\ o[i].txSet # NoTxSet}

(* C23: when the node is synced, a ballot whose TxSet fails checkValid      *)
(* against the current ledger state is rejected with cb(false), on a cache  *)
(* hit in validateBallot and when recvTxSet resumes the validation.         *)
C23_BallotTxSetChecked ==
    (/\ last.op \in {"validateBallot", "recvTxSet"}
     /\ mLedgersToWaitToParticipate = 0
     /\ ~last.valid)
    => \A i \in BallotCbs(out) : ~out[i].result

----------------------------------------------------------------------------
(* Externalization of a TxSet the current buffer does not hold.             *)

\* The TxSet hash valueExternalized decodes from value.
ExternalizedHash(value) ==
    IF value = BadValue THEN DefaultBallot.txSetHash ELSE value.txSetHash

\* The current fetcher buffer does not hold the TxSet of value.
UnknownTxSet(value) ==
    ExternalizedHash(value) \notin DOMAIN mTxSetFetcher[mCurrentTxSetFetcher].items

(* C24: when valueExternalized is called for a value whose TxSet is not in  *)
(* the current fetcher buffer, externalizeValue is not called, the fetcher  *)
(* buffers and the current-buffer index are unchanged, no pending           *)
(* transaction is removed, rebroadcast or moved to another bucket, and the  *)
(* only state change is the cancellation of the bump timer.                 *)
C24_UnknownTxSetOnlyLogged ==
    [][(last'.op = "valueExternalized" /\ UnknownTxSet(last'.value))
       => (/\ out' = <<>>
           /\ mBumpTimer' = TimerCancel(mBumpTimer)
           /\ UNCHANGED <<mTxSetFetcher, mCurrentTxSetFetcher, mTxSetFetches,
                          mReceivedTransactions, mLedgersToWaitToParticipate,
                          mLastClosedLedger, mLastTrigger, mFutureEnvelopes,
                          mLocalValue, DESIRED_BASE_FEE, now>>)]_vars

\* A TxSet that validateValue waits for was externalized while the pool holds
\* a transaction: nothing was called and the fetch is still outstanding.
C24_Witness ==
    /\ last.op = "valueExternalized"
    /\ last.value # BadValue
    /\ UnknownTxSet(last.value)
    /\ last.value.txSetHash \in DOMAIN mTxSetFetches
    /\ last.value.txSetHash \in mTxSetFetcher[mCurrentTxSetFetcher].fetching
    /\ PoolSize(mReceivedTransactions) > 0
    /\ out = <<>>

----------------------------------------------------------------------------
(* The node's own proposal.                                                 *)

(* C25: right after triggerNextLedger on a synced node, at the same clock   *)
(* instant and with the proposed TxSet passing checkValid,                  *)
(* validateValue(lcl.seq + 1, localValue) and validateBallot(lcl.seq + 1,   *)
(* {counter 0, localValue}) both call their callback inside the call with   *)
(* true, for every close time of the last closed ledger, clock value and    *)
(* DESIRED_BASE_FEE >= 0.                                                   *)
C25_OwnProposalValid ==
    /\ (last.op = "validateValue" /\ last.valid)
       => (CbsOf(out, last.id) # {} /\ \A i \in CbsOf(out, last.id) : out[i].result)
    /\ last.op = "validateBallot"
       => (CbsOf(out, last.id) # {} /\ \A i \in CbsOf(out, last.id) : out[i].result)

====
